---- MODULE Spec2Model ----
(***************************************************************************)
(* A model of gimmedatwave.Parser, the decoder of CAEN WaveDump binary     *)
(* files (src/gimmedatwave/gimmedatwave.py).                               *)
(*                                                                         *)
(* The file on disk is a sequence of bytes.  np.fromfile is modelled by    *)
(* what it does on a binary file: it seeks to an offset, reads as many     *)
(* whole items as are available and returns the (possibly shorter, possibly*)
(* empty) array.  Events are decoded from the bytes: header fields are     *)
(* little-endian unsigned 32-bit integers, record samples are read as the  *)
(* little-endian integer of their bytes (for the float32 family this is    *)
(* the bit pattern of the sample).                                         *)
(***************************************************************************)
EXTENDS Integers, Sequences, FiniteSets, TLC

VARIABLES
    file,              \* the bytes of the file on disk (never written by the parser)
    exists,            \* os.path.isfile(file)
    digitizer_family,  \* the family handed to the constructor
    state,             \* "new" (not yet constructed) | "ready" | "failed"
    ctor_arg,          \* the record_length argument of the constructor (0: None)
    ctor_err,          \* the exception the constructor raised, or "none"
    record_length,     \* self.record_length
    sample_times,      \* self.sample_times
    itemsize,          \* self.dtype.itemsize, the stride of one event
    n_entries,         \* self.n_entries
    cur_idx,           \* self.cur_idx
    last,              \* the last call of get_event / get_all_events / read_next and its outcome
    gen,               \* the generator returned by the last call of read_dat
    rn_calls,          \* history: number of read_next calls made
    rn_ok              \* history: number of read_next calls that returned an event

vars == <<file, exists, digitizer_family, state, ctor_arg, ctor_err, record_length,
          sample_times, itemsize, n_entries, cur_idx, last, gen, rn_calls, rn_ok>>

(***************************************************************************)
(* Bounds of the model.                                                    *)
(***************************************************************************)
MaxFileSize == 80    \* files of 0..MaxFileSize bytes
MaxLen == 2          \* record lengths 1..MaxLen, written and overridden
MaxIndex == 3        \* event indices 0..MaxIndex handed to get_event and read_dat
MaxOffset == 2       \* byte offsets 0..MaxOffset handed to get_all_events
MaxExtraCalls == 2   \* read_next is called at most n_entries + MaxExtraCalls times

(***************************************************************************)
(* The family tables.                                                      *)
(***************************************************************************)
HEADER_SIZE == 6

HeaderItemSize == 4

Families == {"X742", "X740", "X730", "X725"}

HeaderLength(fam) == HEADER_SIZE

RecordItemSize(fam) == IF fam = "X742" THEN 4 ELSE 2

\* 1e6 / sample_rate for the rates 5000, 62.5, 500 and 250: the time of one
\* sample in the unit of sample_times (the float rounding of i / rate * 1e6
\* is not modelled).
SamplePeriod(fam) ==
    CASE fam = "X742" -> 200
      [] fam = "X740" -> 16000
      [] fam = "X730" -> 2000
      [] fam = "X725" -> 4000

HeaderBytes(fam) == HeaderLength(fam) * HeaderItemSize

(***************************************************************************)
(* Files.  A WaveDump writer puts records of event_size bytes one after    *)
(* the other, each starting with its event_size as a little-endian uint32; *)
(* every other byte of the file is given a value of its own (its position),*)
(* so that events decoded from different offsets differ.  The file may be  *)
(* cut anywhere.  Bytes stay below 128, so that a decoded uint32 stays     *)
(* below 2^31.                                                             *)
(***************************************************************************)
NoStop == -1     \* read_dat's stop=None

Pow256(k) == CASE k = 0 -> 1 [] k = 1 -> 256 [] k = 2 -> 65536 [] k = 3 -> 16777216

LEByte(v, k) == (v \div Pow256(k)) % 256

WaveDumpBytes(event_size, n) ==
    [p \in 1..n |->
        LET q == p - 1 IN
        IF q % event_size < HeaderItemSize
            THEN LEByte(event_size, q % event_size)
            ELSE q % 128]

\* The event sizes written: exact for the family (header + L samples), or
\* one byte more than that (a size the family's sample width does not divide).
Slacks == {0, 1}

(***************************************************************************)
(* np.fromfile and the decoding of its items.                              *)
(***************************************************************************)
\* The little-endian unsigned integer of the w bytes at byte offset off.
\* (np.uint16 and np.uint32 / np.float32 are the item types of the tables.)
UIntAt(off, w) ==
    IF w = 2
        THEN file[off + 1] + 256 * file[off + 2]
        ELSE file[off + 1] + 256 * file[off + 2] + 65536 * file[off + 3] + 16777216 * file[off + 4]

\* C integer division and Python's int() of a quotient: towards zero.
TruncDiv(a, b) == IF a >= 0 THEN a \div b ELSE -((-a) \div b)

\* The number of whole items np.fromfile(file, count=count, offset=offset)
\* returns for items of size bytes each.  With count = -1 numpy computes
\* (file size - offset) / size in C and allocates that many items: a negative
\* number is the ValueError "negative dimensions are not allowed", reported
\* here as -1.  With count >= 0 a short read returns the items read.
FromFileCount(size, count, offset) ==
    LET avail == TruncDiv(Len(file) - offset, size) IN
    IF count < 0
        THEN (IF avail < 0 THEN -1 ELSE avail)
        ELSE (IF avail < 0 THEN 0 ELSE IF avail < count THEN avail ELSE count)

CAENHeader(h) ==
    [event_size |-> h[1], board_id |-> h[2], pattern |-> h[3],
     channel_mask |-> h[4], event_counter |-> h[5], trigger_time_tag |-> h[6]]

CAENEvent(header, record, times, id) ==
    [header |-> header, record |-> record, sample_times |-> times, id |-> id]

\* unpacked['header'][k] and unpacked['record'][k] of the item at byte offset off.
HeaderAt(off) ==
    [k \in 1..HeaderLength(digitizer_family) |-> UIntAt(off + (k - 1) * HeaderItemSize, HeaderItemSize)]

RecordAt(off) ==
    LET w == RecordItemSize(digitizer_family) IN
    [k \in 1..record_length |-> UIntAt(off + HeaderBytes(digitizer_family) + (k - 1) * w, w)]

\* The event with the given id made of the item at byte offset off.
EventAt(off, id) == CAENEvent(CAENHeader(HeaderAt(off)), RecordAt(off), sample_times, id)

(***************************************************************************)
(* Parser.__init__                                                         *)
(***************************************************************************)
NoCall == [op |-> "none", arg |-> 0, err |-> "none", events |-> <<>>]

NoGen == [state |-> "none", start |-> 0, stop |-> NoStop, step |-> 1, index |-> 0,
          end |-> 0, pos |-> 0, reads |-> 0, opened |-> FALSE, yielded |-> <<>>,
          err |-> "none"]

Init ==
    /\ exists \in BOOLEAN
    /\ digitizer_family \in Families
    /\ \E L \in 1..MaxLen, s \in Slacks, n \in 0..MaxFileSize :
          file = IF exists
                    THEN WaveDumpBytes(HeaderBytes(digitizer_family)
                                        + L * RecordItemSize(digitizer_family) + s, n)
                    ELSE <<>>
    /\ state = "new"
    /\ ctor_arg = 0
    /\ ctor_err = "none"
    /\ record_length = 0
    /\ sample_times = <<>>
    /\ itemsize = 0
    /\ n_entries = 0
    /\ cur_idx = 0
    /\ last = NoCall
    /\ gen = NoGen
    /\ rn_calls = 0
    /\ rn_ok = 0

\* header = np.fromfile(file, header_dtype, count=header_length): the number
\* of header elements read.
HeaderElementsRead == FromFileCount(HeaderItemSize, HeaderLength(digitizer_family), 0)

\* A faulty variant: the header bytes are not taken off the event size.
CalcRecordLengthNoHeader(header0) == TruncDiv(header0, RecordItemSize(digitizer_family))

\* int((header[0] - header_length * header itemsize) / record itemsize).
\* (The files of Init report an event size of at least one header, so the
\* difference, a np.uint32 minus a Python int, is never negative.)
CalcRecordLength(header0) ==
    TruncDiv(header0 - HeaderLength(digitizer_family) * HeaderItemSize,
             RecordItemSize(digitizer_family))

\* _create_dtype(...).itemsize
DtypeItemSize(rl) == HeaderBytes(digitizer_family) + rl * RecordItemSize(digitizer_family)

\* int(os.path.getsize(file) / dtype.itemsize)
GetEntries(size) == TruncDiv(Len(file), size)

ConstructFails(arg, err) ==
    /\ state' = "failed"
    /\ ctor_arg' = arg
    /\ ctor_err' = err
    /\ UNCHANGED <<file, exists, digitizer_family, record_length, sample_times, itemsize,
                   n_entries, cur_idx, last, gen, rn_calls, rn_ok>>

\* Parser(file, digitizer_family, record_length=arg); arg = 0 stands for None,
\* which "record_length or ..." does not tell from 0.
Construct ==
    /\ state = "new"
    /\ \E arg \in 0..MaxLen :
          IF ~exists
              THEN ConstructFails(arg, "FileNotFoundError")
          ELSE IF arg = 0 /\ HeaderElementsRead = 0
              THEN ConstructFails(arg, "IndexError")       \* header[0] of an empty array
          ELSE LET rl == IF arg # 0 THEN arg
                                    ELSE CalcRecordLength(UIntAt(0, HeaderItemSize))
                   sz == DtypeItemSize(rl)
               IN /\ state' = "ready"
                  /\ ctor_arg' = arg
                  /\ ctor_err' = "none"
                  /\ record_length' = rl
                  /\ sample_times' = [k \in 1..rl |-> (k - 1) * SamplePeriod(digitizer_family)]
                  /\ itemsize' = sz
                  /\ n_entries' = GetEntries(sz)
                  /\ cur_idx' = 0
                  /\ UNCHANGED <<file, exists, digitizer_family, last, gen, rn_calls, rn_ok>>

(***************************************************************************)
(* Parser.get_event, Parser.get_all_events, Parser.read_next               *)
(***************************************************************************)
\* A faulty variant: the offset counted in samples, not in bytes of a stride.
EntryOffsetByLength(index) == index * record_length

\* offset=index * self.dtype.itemsize
EntryOffset(index) == index * itemsize

\* get_event(index): the events returned (one) or none with the error raised.
\* unpacked['header'][0] of an empty array is the IndexError the method
\* turns into its own.
GetEventResult(index) ==
    IF FromFileCount(itemsize, 1, EntryOffset(index)) = 0
        THEN [err |-> "IndexError", events |-> <<>>]
        ELSE [err |-> "none", events |-> <<EventAt(EntryOffset(index), index)>>]

GetEvent ==
    /\ state = "ready"
    /\ \E index \in 0..MaxIndex :
          LET r == GetEventResult(index) IN
          last' = [op |-> "get_event", arg |-> index, err |-> r.err, events |-> r.events]
    /\ UNCHANGED <<file, exists, digitizer_family, state, ctor_arg, ctor_err, record_length,
                   sample_times, itemsize, n_entries, cur_idx, gen, rn_calls, rn_ok>>

\* The byte offset of the i-th item (i from 0) of
\* np.fromfile(file, dtype, count=-1, offset=start).
GetAllOffset(start, i) == start + i * itemsize

\* A faulty variant: the id counted from start.
GetAllIdAbsolute(start, i) == start + i

\* for i, event in enumerate(unpacked): the id given to the i-th item.
GetAllId(start, i) == i

GetAllEventsResult(start) ==
    LET n == FromFileCount(itemsize, -1, start) IN
    IF n < 0
        THEN [err |-> "ValueError", events |-> <<>>]
        ELSE [err |-> "none",
              events |-> [k \in 1..n |-> EventAt(GetAllOffset(start, k - 1), GetAllId(start, k - 1))]]

\* The byte offsets handed to get_all_events: the first ones, one just past
\* the end of the file and one a whole event past it.
GetAllStarts == (0..MaxOffset) \cup {Len(file) + 1, Len(file) + itemsize}

GetAllEvents ==
    /\ state = "ready"
    /\ \E start \in GetAllStarts :
          LET r == GetAllEventsResult(start) IN
          last' = [op |-> "get_all_events", arg |-> start, err |-> r.err, events |-> r.events]
    /\ UNCHANGED <<file, exists, digitizer_family, state, ctor_arg, ctor_err, record_length,
                   sample_times, itemsize, n_entries, cur_idx, gen, rn_calls, rn_ok>>

\* A faulty variant: the cursor moves by two.
AdvanceCursorTwice(idx) == idx + 2

\* self.cur_idx += 1
AdvanceCursor(idx) == idx + 1

\* A faulty variant: the cursor moves before the bounds are looked at.
ReadNextAdvancesOnError ==
    /\ state = "ready"
    /\ rn_calls < n_entries + MaxExtraCalls
    /\ rn_calls' = rn_calls + 1
    /\ cur_idx' = AdvanceCursor(cur_idx)
    /\ IF cur_idx >= n_entries
          THEN /\ last' = [op |-> "read_next", arg |-> cur_idx, err |-> "IndexError", events |-> <<>>]
               /\ UNCHANGED rn_ok
          ELSE /\ last' = [op |-> "read_next", arg |-> cur_idx,
                           err |-> GetEventResult(cur_idx).err,
                           events |-> GetEventResult(cur_idx).events]
               /\ rn_ok' = rn_ok + 1
    /\ UNCHANGED <<file, exists, digitizer_family, state, ctor_arg, ctor_err, record_length,
                   sample_times, itemsize, n_entries, gen>>

\* read_next(): the bounds check, then get_event(cur_idx), whose IndexError
\* would leave the cursor where it is, then the cursor moves.
ReadNext ==
    /\ state = "ready"
    /\ rn_calls < n_entries + MaxExtraCalls
    /\ rn_calls' = rn_calls + 1
    /\ IF cur_idx >= n_entries
          THEN /\ last' = [op |-> "read_next", arg |-> cur_idx, err |-> "IndexError", events |-> <<>>]
               /\ UNCHANGED <<cur_idx, rn_ok>>
          ELSE /\ last' = [op |-> "read_next", arg |-> cur_idx,
                           err |-> GetEventResult(cur_idx).err,
                           events |-> GetEventResult(cur_idx).events]
               /\ IF GetEventResult(cur_idx).err = "none"
                     THEN /\ cur_idx' = AdvanceCursor(cur_idx)
                          /\ rn_ok' = rn_ok + 1
                     ELSE UNCHANGED <<cur_idx, rn_ok>>
    /\ UNCHANGED <<file, exists, digitizer_family, state, ctor_arg, ctor_err, record_length,
                   sample_times, itemsize, n_entries, gen>>

(***************************************************************************)
(* Parser.read_dat: a generator.  Calling read_dat runs none of its body;  *)
(* each next() runs the body up to the next yield, the end of the loop or  *)
(* an exception.  One generator is followed at a time: read_dat is called  *)
(* again once the caller has let go of the previous generator.             *)
(***************************************************************************)
Steps == {1, 2}

ReadDat ==
    /\ state = "ready"
    /\ gen.state = "none"
    /\ \E start \in 0..MaxIndex, stop \in {NoStop} \cup (0..MaxIndex), step \in Steps :
          gen' = [NoGen EXCEPT !.state = "created", !.start = start, !.stop = stop,
                               !.step = step, !.index = start]
    /\ UNCHANGED <<file, exists, digitizer_family, state, ctor_arg, ctor_err, record_length,
                   sample_times, itemsize, n_entries, cur_idx, last, rn_calls, rn_ok>>

\* A faulty variant: a stop one past the end is let through.
StopBeyondEndByTwo(stop) == stop # NoStop /\ stop > n_entries + 1

\* if stop is not None and stop > self.n_entries
StopBeyondEnd(stop) == stop # NoStop /\ stop > n_entries

\* A faulty variant: the default end is n_entries.
EndIndexAll(stop) == IF stop = NoStop \/ stop = 0 THEN n_entries ELSE stop

\* end = stop or self.n_entries-1: a stop of 0 is as false as None.
EndIndex(stop) == IF stop = NoStop \/ stop = 0 THEN n_entries - 1 ELSE stop

\* From "while index < end" to the next yield, the end of the loop or the
\* IndexError of unpacked['header'][0] on an empty read.  np.fromfile(f, ...)
\* reads one item where the open file stands, whatever index is.
GenLoop(g) ==
    IF g.index < g.end
        THEN IF FromFileCount(itemsize, 1, g.pos) = 0
                THEN [g EXCEPT !.state = "failed", !.err = "IndexError", !.reads = @ + 1,
                               !.opened = FALSE]
                ELSE [g EXCEPT !.state = "suspended", !.reads = @ + 1,
                               !.yielded = Append(@, EventAt(g.pos, g.index)),
                               !.pos = @ + itemsize]
        ELSE [g EXCEPT !.state = "done", !.opened = FALSE]

\* next(generator)
GenNext ==
    /\ state = "ready"
    /\ gen.state \in {"created", "suspended"}
    /\ gen' = IF gen.state = "created"
                 THEN IF StopBeyondEnd(gen.stop)
                         THEN [gen EXCEPT !.state = "failed", !.err = "IndexError"]
                         ELSE GenLoop([gen EXCEPT !.end = EndIndex(gen.stop), !.opened = TRUE])
                 ELSE GenLoop([gen EXCEPT !.index = @ + gen.step])
    /\ UNCHANGED <<file, exists, digitizer_family, state, ctor_arg, ctor_err, record_length,
                   sample_times, itemsize, n_entries, cur_idx, last, rn_calls, rn_ok>>

\* The caller lets go of the generator (closed, or dropped), which closes its file.
GenClose ==
    /\ gen.state # "none"
    /\ gen' = NoGen
    /\ UNCHANGED <<file, exists, digitizer_family, state, ctor_arg, ctor_err, record_length,
                   sample_times, itemsize, n_entries, cur_idx, last, rn_calls, rn_ok>>

(***************************************************************************)
(* Specifications.  Spec is the parser on every file of the bounds.  The   *)
(* others follow a part of it: the constructor alone, and read_dat alone,  *)
(* on every file; get_event, get_all_events and read_next on the files     *)
(* whose event size is exact for the family; every method interleaved on   *)
(* the longest files of one family.                                        *)
(***************************************************************************)
Next == Construct \/ GetEvent \/ GetAllEvents \/ ReadNext \/ ReadDat \/ GenNext \/ GenClose

Spec == Init /\ [][Next]_vars

NextGeometry == Construct

SpecGeometry == Init /\ [][NextGeometry]_vars

ExactEventSize ==
    \/ Len(file) < HeaderItemSize
    \/ (UIntAt(0, HeaderItemSize) - HeaderBytes(digitizer_family))
           % RecordItemSize(digitizer_family) = 0

InitReader == Init /\ ExactEventSize

NextAccess == Construct \/ GetEvent \/ GetAllEvents \/ ReadNext

SpecAccess == InitReader /\ [][NextAccess]_vars

NextStream == Construct \/ ReadDat \/ GenNext \/ GenClose

SpecStream == Init /\ [][NextStream]_vars

InitSession == InitReader /\ digitizer_family = "X740" /\ Len(file) = MaxFileSize

SpecSession == InitSession /\ [][Next]_vars

(***************************************************************************)
(* The claims.                                                             *)
(***************************************************************************)
Ids(events) == [k \in 1..Len(events) |-> events[k].id]

GenStarted == state = "ready" /\ gen.state \notin {"none", "created"}

\* C1: every event read_dat(start, stop, step) yields, for stop <= n_entries,
\* carries the header and the record stored at the file index that is its
\* id: it equals the event get_event(id) returns.  (Stated for stop >= 1;
\* a stop of 0 is C5's case.)
C1_YieldedEventIsEventOfItsId ==
    (GenStarted /\ gen.stop # NoStop /\ gen.stop >= 1 /\ gen.stop <= n_entries) =>
        \A k \in 1..Len(gen.yielded) :
            gen.yielded[k] = EventAt(gen.yielded[k].id * itemsize, gen.yielded[k].id)

\* C2: the k-th call of read_next on a parser returns, for k <= n_entries,
\* the event with id k - 1, which is the event of file index k - 1; every
\* later call raises IndexError.
C2_ReadNextInOrderThenIndexError ==
    (state = "ready" /\ last.op = "read_next") =>
        IF rn_calls <= n_entries
            THEN /\ last.err = "none"
                 /\ last.events = <<EventAt((rn_calls - 1) * itemsize, rn_calls - 1)>>
            ELSE /\ last.err = "IndexError"
                 /\ last.events = <<>>

C2_Witness ==
    /\ state = "ready"
    /\ last.op = "read_next"
    /\ last.err = "IndexError"
    /\ n_entries = 3
    /\ rn_calls = n_entries + 1

\* C3: n_entries is floor(file size / stride) for every file size;
\* get_event(i) returns the event with id i decoded from byte offset
\* i * stride for every i < n_entries, and raises IndexError, returning no
\* event, for every i >= n_entries, a trailing partial record included.
C3_GetEventInRangeOrIndexError ==
    (state = "ready" /\ last.op = "get_event") =>
        /\ n_entries * itemsize <= Len(file)
        /\ Len(file) < (n_entries + 1) * itemsize
        /\ IF last.arg < n_entries
              THEN /\ last.err = "none"
                   /\ last.events = <<EventAt(last.arg * itemsize, last.arg)>>
              ELSE /\ last.err = "IndexError"
                   /\ last.events = <<>>

C3_Witness ==
    /\ state = "ready"
    /\ last.op = "get_event"
    /\ n_entries >= 2
    /\ last.arg = n_entries
    /\ Len(file) > n_entries * itemsize
    /\ last.err = "IndexError"

\* C4: constructing a parser without a record length on an existing file
\* shorter than one header (24 bytes) fails: no parser with a resolved record
\* length is produced.
C4_ShortFileRejected ==
    (state # "new" /\ exists /\ ctor_arg = 0
        /\ Len(file) < HeaderBytes(digitizer_family)) => state = "failed"

\* C5: read_dat(start, stop, step) with an explicit stop, 0 <= stop <=
\* n_entries, yields exactly the ids start, start + step, ... below stop, in
\* that order, and ends; it yields nothing when stop = 0 or stop <= start.
C5_ExplicitStopBoundsIds ==
    (GenStarted /\ gen.stop # NoStop /\ gen.stop <= n_entries) =>
        /\ gen.state # "failed"
        /\ \A k \in 1..Len(gen.yielded) :
              /\ gen.yielded[k].id = gen.start + (k - 1) * gen.step
              /\ gen.yielded[k].id < gen.stop
        /\ gen.state = "done" =>
              \A id \in gen.start..(gen.stop - 1) :
                  (id - gen.start) % gen.step = 0 =>
                      id \in {gen.yielded[k].id : k \in 1..Len(gen.yielded)}

\* C6: read_dat(start=0, step=1) without a stop yields exactly the ids
\* 0, 1, ..., n_entries - 2 in order and ends without error: the last event
\* of the file is not yielded, and nothing is for n_entries <= 1.
C6_DefaultStopLeavesLastEventOut ==
    (GenStarted /\ gen.stop = NoStop /\ gen.start = 0 /\ gen.step = 1) =>
        /\ gen.state # "failed"
        /\ Ids(gen.yielded) = [k \in 1..Len(gen.yielded) |-> k - 1]
        /\ \A k \in 1..Len(gen.yielded) : gen.yielded[k].id <= n_entries - 2
        /\ gen.state = "done" =>
              Len(gen.yielded) = (IF n_entries <= 1 THEN 0 ELSE n_entries - 1)

C6_Witness ==
    /\ GenStarted
    /\ gen.stop = NoStop /\ gen.start = 0 /\ gen.step = 1
    /\ gen.state = "done"
    /\ n_entries = 3
    /\ Ids(gen.yielded) = <<0, 1>>

\* C7: read_dat(start, stop, step) with an explicit stop > n_entries raises
\* IndexError at its first step, before it has read any record and before it
\* has yielded any event.
C7_StopBeyondEndFailsFirst ==
    (GenStarted /\ gen.stop # NoStop /\ gen.stop > n_entries) =>
        /\ gen.state = "failed"
        /\ gen.err = "IndexError"
        /\ gen.yielded = <<>>
        /\ gen.reads = 0
        /\ gen.pos = 0

C7_Witness ==
    /\ GenStarted
    /\ gen.state = "failed"
    /\ gen.start = 0
    /\ n_entries >= 2
    /\ gen.stop = n_entries + 1

\* C8: when the first header element of the file is header bytes +
\* L * sample width and no record length is handed over, the parser's record
\* length is L, its stride is header bytes + L * sample width and n_entries is
\* floor(file size / stride), for every family and every L.
C8_RecordLengthRoundTrip ==
    \A L \in 1..MaxLen :
        LET stride == HeaderBytes(digitizer_family) + L * RecordItemSize(digitizer_family) IN
        (/\ state # "new" /\ exists /\ ctor_arg = 0
         /\ Len(file) >= HeaderBytes(digitizer_family)
         /\ UIntAt(0, HeaderItemSize) = stride) =>
            /\ state = "ready"
            /\ record_length = L
            /\ itemsize = stride
            /\ n_entries * stride <= Len(file)
            /\ Len(file) < (n_entries + 1) * stride

C8_Witness ==
    /\ state = "ready" /\ ctor_arg = 0
    /\ digitizer_family = "X742"
    /\ UIntAt(0, HeaderItemSize) = 32
    /\ record_length = 2
    /\ n_entries = 2
    /\ Len(file) > 64

C10_CursorCountsSuccessfulReads ==
    state = "ready" =>
        /\ cur_idx = rn_ok
        /\ 0 <= cur_idx
        /\ cur_idx <= n_entries
        /\ (last.err # "none" \/ gen.err # "none") =>
              \A i \in 0..(n_entries - 1) : GetEventResult(i).err = "none"

C10_Witness ==
    /\ state = "ready"
    /\ n_entries >= 2
    /\ cur_idx = n_entries
    /\ last.op = "read_next"
    /\ last.err = "IndexError"
    /\ gen.err = "IndexError"

====
